---- MODULE Spec2Model ----
(***************************************************************************)
(* State-machine model of the Scientifica PatchStar manipulator stack:     *)
(*   - the serial driver      (src/acq4/drivers/PatchStar/patchstar.py)    *)
(*   - the device facade, its monitor thread and its move futures          *)
(*                            (src/acq4/devices/PatchStar/patchstar.py)    *)
(*                                                                         *)
(* Two threads run the code: the caller thread (move, stop, position       *)
(* reads, queries on move futures) and MonitorThread.run.  The manipulator *)
(* itself and the serial link are the environment.  Every driver command   *)
(* (one write plus the read of its reply) is one step, so the manipulator  *)
(* may move, halt or lose its link between any two commands, and the two   *)
(* threads interleave wherever the locks of the code allow it.             *)
(*                                                                         *)
(* Units: positions are integers in units of 1e-8 m, so that the default   *)
(* scale 1e-7 m per raw unit is 10 and the tolerance 1e-6 m is 100.        *)
(* Intervals are integers in milliseconds.  Arithmetic is exact (the       *)
(* floating-point rounding of numpy is not modelled).                      *)
(***************************************************************************)
EXTENDS Integers, Sequences, FiniteSets

(***************************************************************************)
(* Program constants                                                       *)
(***************************************************************************)
\* self.scale default (1e-7, 1e-7, 1e-7), in units of 1e-8 m per raw unit
ScaleAxis == 10
scale == <<ScaleAxis, ScaleAxis, ScaleAxis>>
\* the tolerance 1e-6 of _getStatus, in units of 1e-8 m
Tolerance == 100
\* minInterval = 100e-3 of MonitorThread.run, in ms
minInterval == 100
\* self.interval = 0.3 of MonitorThread.__init__, in ms
DefaultInterval == 300

MsgNotComplete == "Move did not complete."
MsgInterrupted == "Move was interrupted before completion."
\* errorMessage() when the attribute _errorMsg was never assigned
AttributeError == "AttributeError: _errorMsg"
\* quit(): the facade has no attribute _monitor
NoMonitorAttribute == "AttributeError: _monitor"

(***************************************************************************)
(* Bounds and input sets of the model                                      *)
(***************************************************************************)
\* raw units the manipulator travels per axis between two observations
StepRaw == 10
\* the raw position the manipulator rests at when the facade is constructed
InitRaw == <<0, 0, 0>>
\* targets (units of 1e-8 m) the caller asks for; 95 and 205 are not multiples
\* of the scale, so the conversion to raw units truncates; 95 lies within the
\* tolerance of the position one step short of it
Targets == {<<0, 0, 0>>, <<95, 95, 0>>, <<205, 205, 0>>}
\* ceilings (ms) the caller passes to setInterval; 50 is below the floor
Intervals == {50, 300}
\* pos arguments of the driver's moveTo called directly: raw units, none is
\* the set of axes given as None (their entry in pos is not read)
DriverTargets ==
    {[pos |-> <<20, 20, 0>>, none |-> {3}], [pos |-> <<0, 0, 0>>, none |-> {1, 2}]}

NoPos == << >>

(***************************************************************************)
(* Pure helpers                                                            *)
(***************************************************************************)
Abs(x) == IF x < 0 THEN -x ELSE x

Min(a, b) == IF a <= b THEN a ELSE b

\* astype(int): truncation toward zero
TruncDiv(a, b) == IF a >= 0 THEN a \div b ELSE -((-a) \div b)

\* pos = [pos[i] * self.scale[i] for i in (0, 1, 2)]
ToPosition(raw) == [i \in 1..3 |-> raw[i] * scale[i]]

\* pos = (np.array(pos) / np.array(self.dev.scale)).astype(int)
ToRaw(pos) == [i \in 1..3 |-> TruncDiv(pos[i], scale[i])]

DistSq(p, q) ==
    (p[1] - q[1]) * (p[1] - q[1]) + (p[2] - q[2]) * (p[2] - q[2])
        + (p[3] - q[3]) * (p[3] - q[3])

\* ((np.array(pos) - np.array(self.targetPos))**2).sum()**0.5 < 1e-6
\* (mutant: the comparison reversed)
MutReachedTargetReversed(pos, target) ==
    DistSq(pos, target) > Tolerance * Tolerance
ReachedTarget(pos, target) == DistSq(pos, target) < Tolerance * Tolerance

(***************************************************************************)
(* Replies to POS                                                          *)
(***************************************************************************)
\* a field of a reply line: text that int() parses to val, or text that
\* int() rejects
IntField(n) == [parses |-> TRUE, val |-> n]
JunkField == [parses |-> FALSE, val |-> 0]

\* the reply of the manipulator at raw: x \t y \t z
PosReply(raw) == <<IntField(raw[1]), IntField(raw[2]), IntField(raw[3])>>

\* the lines readUntil can hand to getPos: the reply intact, with a field
\* lost, with a field added, with a field corrupted
PosPackets(raw) ==
    {PosReply(raw),
     SubSeq(PosReply(raw), 1, 2),
     Append(PosReply(raw), IntField(0)),
     [PosReply(raw) EXCEPT ![2] = JunkField]}

\* getPos: return [int(x) for x in packet.split('\t')]
GetPos(packet) ==
    IF \E i \in 1..Len(packet) : ~packet[i].parses
    THEN [exc |-> "ValueError", val |-> NoPos]
    ELSE [exc |-> "none", val |-> [i \in 1..Len(packet) |-> packet[i].val]]

\* _getPosition: pos = [pos[i] * self.scale[i] for i in (0, 1, 2)]
ScalePos(raw) ==
    IF Len(raw) < 3
    THEN [exc |-> "IndexError", val |-> NoPos]
    ELSE [exc |-> "none", val |-> ToPosition(raw)]

\* the POS exchange as the command log shows it
PosLog(packet) ==
    IF \E i \in 1..Len(packet) : ~packet[i].parses THEN "POS=junk"
    ELSE IF Len(packet) < 3 THEN "POS=short"
    ELSE IF Len(packet) > 3 THEN "POS=long"
    ELSE "POS"

\* moveTo: for i in range(3): if pos[i] is None: pos[i] = currentPos[i]
\* (mutant: an unset axis is sent as 0)
MutFillUnsetZero(pos, none, currentPos) ==
    [i \in 1..3 |-> IF i \in none THEN 0 ELSE pos[i]]
FillUnset(pos, none, currentPos) ==
    [i \in 1..3 |-> IF i \in none THEN currentPos[i] ELSE pos[i]]

\* the fill indexes past the end of currentPos (IndexError)
FillRaises(none, currentPos) == \E i \in none : i > Len(currentPos)

\* one axis of the manipulator travelling toward its target
StepAxis(x, t) ==
    IF Abs(t - x) <= StepRaw THEN t
    ELSE IF t > x THEN x + StepRaw ELSE x - StepRaw

StepToward(raw, target) == [i \in 1..3 |-> StepAxis(raw[i], target[i])]

(***************************************************************************)
(* Move futures                                                            *)
(***************************************************************************)
\* no future (None)
NoHandle ==
    [live |-> FALSE, targetPos |-> NoPos, finished |-> FALSE,
     interrupted |-> FALSE, errorMsg |-> "unset", zeroMove |-> FALSE]

\* PatchStarMoveFuture.__init__: _interrupted = False, _finished = False; the
\* attribute assigned is _errorMSg, so _errorMsg stays unset.  zeroMove is a
\* ghost field: the target was the manipulator's position when the move was
\* issued.
NewHandle(target, zero) ==
    [live |-> TRUE, targetPos |-> target, finished |-> FALSE,
     interrupted |-> FALSE, errorMsg |-> "unset", zeroMove |-> zero]

\* _getStatus for a finished future: the memoized status
MemoStatus(h) == IF h.interrupted THEN -1 ELSE 1

\* _getStatus once the manipulator reported not moving and pos was read
StatusAt(h, pos) == IF ReachedTarget(pos, h.targetPos) THEN 1 ELSE -1

\* the future after _getStatus resolved it from pos
Resolve(h, pos) ==
    IF ReachedTarget(pos, h.targetPos)
    THEN [h EXCEPT !.finished = TRUE]
    ELSE [h EXCEPT !.finished = TRUE, !.interrupted = TRUE,
                   !.errorMsg = MsgNotComplete]

\* _stopped, given the status _getStatus returned (1 or -1): status 0 raises
\* (mutants: the reason is left as _getStatus set it; every stopped future is
\* marked interrupted)
MutAfterStoppedKeepsReason(h, status) == h
MutAfterStoppedAlwaysInterrupts(h, status) ==
    [h EXCEPT !.interrupted = TRUE, !.errorMsg = MsgInterrupted]
AfterStopped(h, status) ==
    IF status = -1 THEN [h EXCEPT !.errorMsg = MsgInterrupted] ELSE h

\* wasInterrupted()
WasInterrupted(h) == h.interrupted

\* isDone() of a finished future (no device contact)
IsDone(h) == h.finished

\* errorMessage(): return self._errorMsg
ErrorMessage(h) == IF h.errorMsg = "unset" THEN AttributeError ELSE h.errorMsg

\* _move: if self._lastMove is not None and not self._lastMove.isDone(): stop()
\* (mutant: the previous move is never stopped)
MutNeedsStopNever(status) == FALSE
NeedsStop(status) == status = 0

\* _stopped: elif status == 0: raise RuntimeError(...)
\* (mutant: the still-moving manipulator is ignored)
MutStoppedRaisesNever(status) == FALSE
StoppedRaises(status) == status = 0

\* the reply to S as isMoving() reads it
SReply(moving) == IF moving THEN "S=moving" ELSE "S=stopped"

(***************************************************************************)
(* MonitorThread.run: the interval after a position read                   *)
(***************************************************************************)
\* (mutants: the doubling is not clamped; a change does not reset it)
MutNextIntervalUnclamped(changed, maxI, cur) ==
    IF changed THEN minInterval ELSE cur * 2
MutNextIntervalNoReset(changed, maxI, cur) == Min(maxI, cur * 2)
NextInterval(changed, maxI, cur) ==
    IF changed THEN minInterval ELSE Min(maxI, cur * 2)

VARIABLES
    \* the manipulator and the serial link
    devPos,         \* raw position
    devTarget,      \* raw target of the last accepted ABS
    devMoving,      \* what S reports
    linkUp,         \* FALSE: every command times out
    \* PatchStar (device facade)
    lastPos,        \* self._lastPos
    lastMove,       \* self._lastMove (NoHandle: None)
    oldMove,        \* the future most recently retired, still held by the caller
    lockOwner,      \* self.lock (reentrant): "none", "caller", "monitor"
    lockDepth,
    drvOwner,       \* the driver's self.lock: "none", "caller", "monitor"
    \* the caller thread
    cop,            \* operation in progress
    cpc,            \* next step of it
    cin,            \* who called _getStatus: "isDone" or "stopped"
    ch,             \* the future _getStatus runs on: "last" or "old"
    cpos,           \* pos returned by _getPosition
    cemit,          \* position to notify, NoPos when emit is False
    craw,           \* value self.dev.getPos() returned to the operation
    ctarget,        \* pos argument of the move
    cnone,          \* axes of the pos argument that are None
    cspeed,         \* TRUE when a speed is given
    result,         \* outcome of the caller's last operation
    cmdLog,         \* commands the caller's last operation has put on the link
    \* MonitorThread
    stopped,        \* self.stopped
    selfInterval,   \* self.interval (the ceiling)
    mpc,            \* position in run()
    interval,       \* local interval
    maxInterval,    \* local maxInterval (0: not yet assigned)
    monLastPos,     \* local lastPos
    mpos,           \* pos returned by _getPosition
    memit,          \* position to notify, NoPos when emit is False
    \* observers of the position-changed notification
    notified,       \* the position the last notification carried
    notifyCount,    \* notifications delivered so far, modulo 2
    \* the locks and the link at the granularity of single lock operations
    held,           \* per lock: the thread that owns it and how many times
    prog,           \* per thread: the steps left of the operation it runs
    wire            \* commands written whose reply was not read yet

devVars == <<devPos, devTarget, devMoving>>
lockVars == <<lockOwner, lockDepth, drvOwner>>
handleVars == <<lastMove, oldMove>>
callerVars ==
    <<cop, cpc, cin, ch, cpos, cemit, craw, ctarget, cnone, cspeed, result, cmdLog>>
monVars == <<stopped, selfInterval, mpc, interval, maxInterval, monLastPos, mpos, memit>>
noteVars == <<notified, notifyCount>>
stepVars == <<held, prog, wire>>
vars ==
    <<devVars, linkUp, lastPos, handleVars, lockVars, callerVars, monVars, noteVars,
      stepVars>>


(***************************************************************************)
(* The state after PatchStar.__init__: the cache was cleared and re-read,  *)
(* which notified the initial position; the monitor thread was started.    *)
(***************************************************************************)
Init ==
    /\ devPos = InitRaw
    /\ devTarget = InitRaw
    /\ devMoving = FALSE
    /\ linkUp = TRUE
    /\ lastPos = ToPosition(InitRaw)
    /\ lastMove = NoHandle
    /\ oldMove = NoHandle
    /\ lockOwner = "none"
    /\ lockDepth = 0
    /\ drvOwner = "none"
    /\ cop = "idle"
    /\ cpc = "idle"
    /\ cin = "none"
    /\ ch = "none"
    /\ cpos = NoPos
    /\ cemit = NoPos
    /\ craw = NoPos
    /\ ctarget = NoPos
    /\ cnone = {}
    /\ cspeed = FALSE
    /\ result = "none"
    /\ cmdLog = << >>
    /\ stopped = FALSE
    /\ selfInterval = DefaultInterval
    /\ mpc = "top"
    /\ interval = minInterval
    /\ maxInterval = 0
    /\ monLastPos = NoPos
    /\ mpos = NoPos
    /\ memit = NoPos
    /\ notified = ToPosition(InitRaw)
    /\ notifyCount = 1
    /\ held = [l \in {"facade", "driver", "monitor"} |-> [owner |-> "none", depth |-> 0]]
    /\ prog = [t \in {"caller", "monitor"} |-> << >>]
    /\ wire = << >>

(***************************************************************************)
(* Environment: the manipulator and the link                               *)
(***************************************************************************)
\* the manipulator travels; once at its target it reports not moving
DeviceStep ==
    /\ devMoving
    /\ IF devPos = devTarget
       THEN devMoving' = FALSE /\ UNCHANGED devPos
       ELSE devPos' = StepToward(devPos, devTarget) /\ UNCHANGED devMoving
    /\ UNCHANGED <<devTarget, linkUp, lastPos, handleVars, lockVars, callerVars,
                   monVars, noteVars>>
    /\ UNCHANGED stepVars

\* the manipulator halts short of its target (limit reached, obstruction)
DeviceHalt ==
    /\ devMoving
    /\ devPos # devTarget
    /\ devMoving' = FALSE
    /\ UNCHANGED <<devPos, devTarget, linkUp, lastPos, handleVars, lockVars,
                   callerVars, monVars, noteVars>>
    /\ UNCHANGED stepVars

\* the manipulator is moved by hand (its control wheels) while at rest
DeviceJog ==
    /\ ~devMoving
    /\ \E t \in Targets :
         /\ ToRaw(t) # devPos
         /\ devPos' = ToRaw(t)
         /\ devTarget' = ToRaw(t)
    /\ UNCHANGED <<devMoving, linkUp, lastPos, handleVars, lockVars, callerVars,
                   monVars, noteVars>>
    /\ UNCHANGED stepVars

\* the link stops answering: readUntil raises TimeoutError
LinkDrop ==
    /\ linkUp
    /\ linkUp' = FALSE
    /\ UNCHANGED <<devVars, lastPos, handleVars, lockVars, callerVars, monVars,
                   noteVars>>
    /\ UNCHANGED stepVars

LinkRestore ==
    /\ ~linkUp
    /\ linkUp' = TRUE
    /\ UNCHANGED <<devVars, lastPos, handleVars, lockVars, callerVars, monVars,
                   noteVars>>
    /\ UNCHANGED stepVars

\* self.posChanged(pos): observers receive pos
Notify(pos) == notified' = pos /\ notifyCount' = 1 - notifyCount

(***************************************************************************)
(* The caller thread                                                       *)
(***************************************************************************)
Handle(slot) == IF slot = "last" THEN lastMove ELSE oldMove

PutHandle(slot, h) ==
    IF slot = "last"
    THEN lastMove' = h /\ UNCHANGED oldMove
    ELSE oldMove' = h /\ UNCHANGED lastMove

\* the operation ends: it returned a value or raised
Done(op, out, log) ==
    /\ cop' = "idle"
    /\ cpc' = "idle"
    /\ cin' = "none"
    /\ ch' = "none"
    /\ cpos' = NoPos
    /\ cemit' = NoPos
    /\ craw' = NoPos
    /\ ctarget' = NoPos
    /\ cnone' = {}
    /\ cspeed' = FALSE
    /\ result' = out
    /\ cmdLog' = log

\* the operation goes on at step pc
Goto(pc, in, slot, log) ==
    /\ cpc' = pc
    /\ cin' = in
    /\ ch' = slot
    /\ cpos' = NoPos
    /\ cemit' = NoPos
    /\ craw' = NoPos
    /\ cmdLog' = log
    /\ UNCHANGED <<cop, ctarget, cnone, cspeed, result>>

\* the driver's moveTo goes on at step pc with currentPos
GotoMoveTo(pc, currentPos, log) ==
    /\ cpc' = pc
    /\ craw' = currentPos
    /\ cmdLog' = log
    /\ UNCHANGED <<cop, cin, ch, cpos, cemit, ctarget, cnone, cspeed, result>>

\* the operation begins
Begin(op, pc, in, slot) ==
    /\ cop' = op
    /\ cpc' = pc
    /\ cin' = in
    /\ ch' = slot
    /\ cpos' = NoPos
    /\ cemit' = NoPos
    /\ craw' = NoPos
    /\ result' = "running"
    /\ cmdLog' = << >>

\* an exception leaves every with-block of the caller
ReleaseAll ==
    /\ lockOwner' = IF lockOwner = "caller" THEN "none" ELSE lockOwner
    /\ lockDepth' = IF lockOwner = "caller" THEN 0 ELSE lockDepth
    /\ drvOwner' = IF drvOwner = "caller" THEN "none" ELSE drvOwner

Raise(exc, log) ==
    /\ Done(cop, exc, log)
    /\ ReleaseAll
    /\ UNCHANGED handleVars

\* _getStatus returned status for the future h2 (h2: the future as
\* _getStatus left it); what its caller does next
Continue(status, h2, log) ==
    /\ UNCHANGED drvOwner
    /\ CASE cin = "stopped" /\ StoppedRaises(status) ->
              \* _stopped: raise RuntimeError("Interrupted move but manipulator
              \* is still running!"); stop() does not reach _lastMove = None
              /\ PutHandle(ch, h2)
              /\ lockOwner' = "none"
              /\ lockDepth' = 0
              /\ Done(cop, "RuntimeError", log)
         [] cin = "stopped" /\ ~StoppedRaises(status) ->
              \* _stopped returns; stop(): self._lastMove = None
              /\ lastMove' = NoHandle
              /\ oldMove' = AfterStopped(h2, status)
              /\ IF cop = "stop"
                 THEN /\ lockOwner' = "none"
                      /\ lockDepth' = 0
                      /\ Done("stop", "returned", log)
                 ELSE \* back in _move, which goes on to build the new future
                      /\ lockDepth' = 1
                      /\ UNCHANGED lockOwner
                      /\ Goto("mtPOS", "none", "none", log)
         [] cin = "isDone" /\ cop = "isDone" ->
              /\ PutHandle(ch, h2)
              /\ UNCHANGED <<lockOwner, lockDepth>>
              /\ Done("isDone", "returned", log)
         [] cin = "isDone" /\ cop = "targetPosition" ->
              \* done: return self.getPosition() (the cache); else targetPos
              /\ PutHandle(ch, h2)
              /\ lockOwner' = "none"
              /\ lockDepth' = 0
              /\ Done("targetPosition", "returned", log)
         [] cin = "isDone" /\ cop = "move" ->
              /\ PutHandle(ch, h2)
              /\ UNCHANGED lockOwner
              /\ IF NeedsStop(status)
                 THEN lockDepth' = 2 /\ Goto("STOP", "none", "none", log)
                 ELSE lockDepth' = 1 /\ Goto("mtPOS", "none", "none", log)

\* _move(abs, rel, speed, linear): with self.lock, then the isDone() test
CallMove(target, speed) ==
    /\ cpc = "idle"
    /\ lockOwner = "none"
    /\ lockOwner' = "caller"
    /\ lockDepth' = 1
    /\ ctarget' = target
    /\ cnone' = {}
    /\ cspeed' = speed
    /\ IF lastMove.live
       THEN Begin("move", "S", "isDone", "last")
       ELSE Begin("move", "mtPOS", "none", "none")
    /\ UNCHANGED <<devVars, linkUp, lastPos, handleVars, drvOwner, monVars, noteVars>>
    /\ UNCHANGED stepVars

\* stop(): with self.lock
CallStop ==
    /\ cpc = "idle"
    /\ lockOwner = "none"
    /\ lockOwner' = "caller"
    /\ lockDepth' = 1
    /\ Begin("stop", "STOP", "none", "none")
    /\ UNCHANGED <<devVars, linkUp, lastPos, handleVars, drvOwner, ctarget, cnone, cspeed,
                   monVars, noteVars>>
    /\ UNCHANGED stepVars

\* getPosition(refresh=True): the superclass calls _getPosition
CallGetPosition ==
    /\ cpc = "idle"
    /\ Begin("getPosition", "POS", "none", "none")
    /\ UNCHANGED <<devVars, linkUp, lastPos, handleVars, lockVars, ctarget, cnone, cspeed,
                   monVars, noteVars>>
    /\ UNCHANGED stepVars

\* targetPosition(): with self.lock
CallTargetPosition ==
    /\ cpc = "idle"
    /\ lockOwner = "none"
    /\ IF lastMove.live
       THEN /\ lockOwner' = "caller"
            /\ lockDepth' = 1
            /\ Begin("targetPosition", "S", "isDone", "last")
            /\ UNCHANGED <<ctarget, cnone, cspeed>>
       ELSE \* self._lastMove is None: return self.getPosition()
            /\ Done("targetPosition", "returned", << >>)
            /\ UNCHANGED <<lockOwner, lockDepth>>
    /\ UNCHANGED <<devVars, linkUp, lastPos, handleVars, drvOwner, monVars, noteVars>>
    /\ UNCHANGED stepVars

\* isDone() on a future the caller holds
CallIsDone(slot) ==
    /\ cpc = "idle"
    /\ Handle(slot).live
    /\ Begin("isDone", "S", "isDone", slot)
    /\ UNCHANGED <<devVars, linkUp, lastPos, handleVars, lockVars, ctarget, cnone, cspeed,
                   monVars, noteVars>>
    /\ UNCHANGED stepVars

\* wasInterrupted() on a future the caller holds
CallWasInterrupted(slot) ==
    /\ cpc = "idle"
    /\ Handle(slot).live
    /\ Done("wasInterrupted", "returned", << >>)
    /\ UNCHANGED <<devVars, linkUp, lastPos, handleVars, lockVars, monVars, noteVars>>
    /\ UNCHANGED stepVars

\* errorMessage() on a future the caller holds
CallErrorMessage(slot) ==
    /\ cpc = "idle"
    /\ Handle(slot).live
    /\ Done("errorMessage",
            IF ErrorMessage(Handle(slot)) = AttributeError
            THEN AttributeError ELSE "returned", << >>)
    /\ UNCHANGED <<devVars, linkUp, lastPos, handleVars, lockVars, monVars, noteVars>>
    /\ UNCHANGED stepVars

\* _getStatus: the memoized status, else self.dev.dev.isMoving() (S)
CallerS ==
    /\ cpc = "S"
    /\ LET h == Handle(ch)
           log == Append(cmdLog, SReply(linkUp /\ devMoving))
       IN  IF h.finished
           THEN Continue(MemoStatus(h), h, cmdLog)
           ELSE IF ~linkUp
           THEN Raise("TimeoutError", log)
           ELSE IF devMoving
           THEN Continue(0, h, log)
           ELSE /\ Goto("POS", cin, ch, log)
                /\ UNCHANGED <<handleVars, lockVars>>
    /\ UNCHANGED <<devVars, linkUp, lastPos, monVars, noteVars>>
    /\ UNCHANGED stepVars

\* _getPosition, the locked part: read POS, scale, compare with the cache,
\* update it
CallerPOS ==
    /\ cpc = "POS"
    /\ lockOwner \in {"none", "caller"}
    /\ drvOwner \in {"none", "caller"}
    /\ \E packet \in PosPackets(devPos) :
         LET got == GetPos(packet)
             scaled == ScalePos(got.val)
             log == Append(cmdLog, PosLog(packet))
         IN  IF ~linkUp
             THEN Raise("TimeoutError", Append(cmdLog, "POS")) /\ UNCHANGED lastPos
             ELSE IF got.exc # "none"
             THEN Raise(got.exc, log) /\ UNCHANGED lastPos
             ELSE IF scaled.exc # "none"
             THEN Raise(scaled.exc, log) /\ UNCHANGED lastPos
             ELSE /\ lastPos' = scaled.val
                  /\ cpc' = "fin"
                  /\ cpos' = scaled.val
                  /\ cemit' = IF scaled.val # lastPos THEN scaled.val ELSE NoPos
                  /\ craw' = got.val
                  /\ cmdLog' = log
                  /\ UNCHANGED <<cop, cin, ch, ctarget, cnone, cspeed, result,
                                 handleVars, lockVars>>
    /\ UNCHANGED <<devVars, linkUp, monVars, noteVars>>
    /\ UNCHANGED stepVars

\* _getPosition after the lock is released: posChanged(pos) when emit; then
\* its caller goes on with pos (getPosition returns it, _getStatus resolves)
CallerFin ==
    /\ cpc = "fin"
    /\ IF cemit # NoPos THEN Notify(cemit) ELSE UNCHANGED noteVars
    /\ IF cop = "getPosition"
       THEN /\ Done("getPosition", "returned", cmdLog)
            /\ UNCHANGED <<handleVars, lockVars>>
       ELSE Continue(StatusAt(Handle(ch), cpos), Resolve(Handle(ch), cpos), cmdLog)
    /\ UNCHANGED <<devVars, linkUp, lastPos, monVars>>
    /\ UNCHANGED stepVars

\* stop(): self.dev.stop() (STOP), then _stopped() on the current future
CallerSTOP ==
    /\ cpc = "STOP"
    /\ LET log == Append(cmdLog, "STOP")
       IN  IF ~linkUp
           THEN Raise("TimeoutError", log) /\ UNCHANGED devVars
           ELSE \* the manipulator halts, or has not halted yet when asked next
                /\ \E halts \in BOOLEAN : devMoving' = (devMoving /\ ~halts)
                /\ UNCHANGED <<devPos, devTarget>>
                /\ IF lastMove.live
                   THEN /\ Goto("S", "stopped", "last", log)
                        /\ UNCHANGED <<handleVars, lockVars>>
                   ELSE \* self._lastMove = None
                        /\ lastMove' = NoHandle
                        /\ UNCHANGED <<oldMove, drvOwner>>
                        /\ lockOwner' = "none"
                        /\ lockDepth' = 0
                        /\ Done("stop", "returned", log)
    /\ UNCHANGED <<linkUp, lastPos, monVars, noteVars>>
    /\ UNCHANGED stepVars

\* the pos argument of the driver's moveTo: the target in raw units when the
\* future calls it, the argument itself when the caller calls the driver
MoveToArgs == IF cop = "move" THEN ToRaw(ctarget) ELSE ctarget

\* the driver's moveTo(pos, speed) called directly
CallMoveTo(args, speed) ==
    /\ cpc = "idle"
    /\ ctarget' = args.pos
    /\ cnone' = args.none
    /\ cspeed' = speed
    /\ Begin("moveTo", "mtPOS", "none", "none")
    /\ UNCHANGED <<devVars, linkUp, lastPos, handleVars, lockVars, monVars, noteVars>>
    /\ UNCHANGED stepVars

\* the driver's getPos() called directly
CallGetPos ==
    /\ cpc = "idle"
    /\ Begin("getPos", "gPOS", "none", "none")
    /\ UNCHANGED <<devVars, linkUp, lastPos, handleVars, lockVars, ctarget, cnone, cspeed,
                   monVars, noteVars>>
    /\ UNCHANGED stepVars

\* getPos: with self.lock, the POS exchange, the reply parsed
CallerGetPos ==
    /\ cpc = "gPOS"
    /\ drvOwner \in {"none", "caller"}
    /\ \E packet \in PosPackets(devPos) :
         LET got == GetPos(packet)
             log == Append(cmdLog, PosLog(packet))
         IN  IF ~linkUp
             THEN Raise("TimeoutError", Append(cmdLog, "POS"))
             ELSE IF got.exc # "none"
             THEN Raise(got.exc, log)
             ELSE /\ cpc' = "gRet"
                  /\ craw' = got.val
                  /\ cmdLog' = log
                  /\ UNCHANGED <<cop, cin, ch, cpos, cemit, ctarget, cnone, cspeed,
                                 result, handleVars, lockVars>>
    /\ UNCHANGED <<devVars, linkUp, lastPos, monVars, noteVars>>
    /\ UNCHANGED stepVars

\* getPos returns the list craw to the caller
CallerGetPosReturn ==
    /\ cpc = "gRet"
    /\ Done("getPos", "returned", cmdLog)
    /\ UNCHANGED <<devVars, linkUp, lastPos, handleVars, lockVars, monVars, noteVars>>
    /\ UNCHANGED stepVars

\* PatchStarMoveFuture.__init__ -> driver moveTo: with self.lock, getPos (POS),
\* then the unset axes are filled in from currentPos
CallerMoveToPOS ==
    /\ cpc = "mtPOS"
    /\ drvOwner \in {"none", "caller"}
    /\ \E packet \in PosPackets(devPos) :
         LET got == GetPos(packet)
             log == Append(cmdLog, PosLog(packet))
         IN  IF ~linkUp
             THEN Raise("TimeoutError", Append(cmdLog, "POS"))
             ELSE IF got.exc # "none"
             THEN Raise(got.exc, log)
             ELSE IF FillRaises(cnone, got.val)
             THEN Raise("IndexError", log)
             ELSE /\ drvOwner' = "caller"
                  /\ GotoMoveTo("mtTOP", got.val, log)
                  /\ UNCHANGED <<handleVars, lockOwner, lockDepth>>
    /\ UNCHANGED <<devVars, linkUp, lastPos, monVars, noteVars>>
    /\ UNCHANGED stepVars

\* moveTo: getSpeed (TOP) when speed is None, else setSpeed (TOP <speed>)
CallerMoveToTOP ==
    /\ cpc = "mtTOP"
    /\ LET log == Append(cmdLog, IF cspeed THEN "TOP n" ELSE "TOP")
       IN  IF ~linkUp
           THEN Raise("TimeoutError", log)
           ELSE /\ GotoMoveTo("mtABS", craw, log)
                /\ UNCHANGED <<handleVars, lockVars>>
    /\ UNCHANGED <<devVars, linkUp, lastPos, monVars, noteVars>>
    /\ UNCHANGED stepVars

\* moveTo: ABS x y z, and moveTo returns; back in _move the new future
\* becomes self._lastMove.  A manipulator that is already moving ignores the
\* command and the read of the acknowledgement times out (docstring of
\* moveTo).
CallerMoveToABS ==
    /\ cpc = "mtABS"
    /\ LET log == Append(cmdLog, "ABS")
       IN  IF ~linkUp \/ devMoving
           THEN Raise("TimeoutError", log) /\ UNCHANGED devVars
           ELSE /\ devTarget' = FillUnset(MoveToArgs, cnone, craw)
                /\ devMoving' = TRUE
                /\ UNCHANGED devPos
                /\ drvOwner' = "none"
                /\ IF cop = "move"
                   THEN /\ lastMove' =
                             NewHandle(ctarget, ctarget = ToPosition(devPos))
                        /\ oldMove' = IF lastMove.live THEN lastMove ELSE oldMove
                        /\ lockOwner' = "none"
                        /\ lockDepth' = 0
                   ELSE UNCHANGED <<handleVars, lockOwner, lockDepth>>
                /\ Done(cop, "returned", log)
    /\ UNCHANGED <<linkUp, lastPos, monVars, noteVars>>
    /\ UNCHANGED stepVars

\* MonitorThread.setInterval(i)
CallSetInterval(i) ==
    /\ cpc = "idle"
    /\ selfInterval' = i
    /\ Done("setInterval", "returned", << >>)
    /\ UNCHANGED <<devVars, linkUp, lastPos, handleVars, lockVars, stopped, mpc,
                   interval, maxInterval, monLastPos, mpos, memit, noteVars>>
    /\ UNCHANGED stepVars

\* MonitorThread.stop()
CallMonitorStop ==
    /\ cpc = "idle"
    /\ stopped' = TRUE
    /\ Done("monitor.stop", "returned", << >>)
    /\ UNCHANGED <<devVars, linkUp, lastPos, handleVars, lockVars, selfInterval, mpc,
                   interval, maxInterval, monLastPos, mpos, memit, noteVars>>
    /\ UNCHANGED stepVars

\* MonitorThread.start(): self.stopped = False, then Thread.start(), which
\* begins run() again when run() has returned and does nothing while it runs
CallMonitorStart ==
    /\ cpc = "idle"
    /\ stopped' = FALSE
    /\ IF mpc = "exit"
       THEN /\ mpc' = "top"
            /\ interval' = minInterval
            /\ monLastPos' = NoPos
            /\ maxInterval' = 0
       ELSE UNCHANGED <<mpc, interval, monLastPos, maxInterval>>
    /\ Done("monitor.start", "returned", << >>)
    /\ UNCHANGED <<devVars, linkUp, lastPos, handleVars, lockVars, selfInterval,
                   mpos, memit, noteVars>>
    /\ UNCHANGED stepVars

\* quit(): self._monitor.stop() -- the attribute set by __init__ is self.monitor
CallQuit ==
    /\ cpc = "idle"
    /\ Done("quit", NoMonitorAttribute, << >>)
    /\ UNCHANGED <<devVars, linkUp, lastPos, handleVars, lockVars, monVars, noteVars>>
    /\ UNCHANGED stepVars

(***************************************************************************)
(* MonitorThread.run                                                       *)
(***************************************************************************)
\* with self.lock: if self.stopped: break; maxInterval = self.interval
\* (mutant: the ceiling is read once, when run() begins)
MutMonTopStaleCeiling ==
    /\ mpc = "top"
    /\ IF stopped
       THEN mpc' = "exit" /\ UNCHANGED maxInterval
       ELSE /\ mpc' = "read"
            /\ maxInterval' = IF maxInterval = 0 THEN selfInterval ELSE maxInterval
    /\ UNCHANGED <<devVars, linkUp, lastPos, handleVars, lockVars, callerVars, stopped,
                   selfInterval, interval, monLastPos, mpos, memit, noteVars>>
    /\ UNCHANGED stepVars
MonTop ==
    /\ mpc = "top"
    /\ IF stopped
       THEN mpc' = "exit" /\ UNCHANGED maxInterval
       ELSE mpc' = "read" /\ maxInterval' = selfInterval
    /\ UNCHANGED <<devVars, linkUp, lastPos, handleVars, lockVars, callerVars, stopped,
                   selfInterval, interval, monLastPos, mpos, memit, noteVars>>
    /\ UNCHANGED stepVars

\* self.dev._getPosition(), the locked part; a read error (the read times
\* out, int() or the indexing raises) is caught by the except clause of run()
\* (mutant: the error ends run())
MutMonReadErrorEndsRun ==
    /\ mpc = "read"
    /\ lockOwner = "none"
    /\ drvOwner = "none"
    /\ \E packet \in PosPackets(devPos) :
         LET got == GetPos(packet)
             scaled == ScalePos(got.val)
         IN  IF ~linkUp \/ got.exc # "none" \/ scaled.exc # "none"
             THEN mpc' = "exit" /\ UNCHANGED <<lastPos, mpos, memit>>
             ELSE /\ lastPos' = scaled.val
                  /\ mpos' = scaled.val
                  /\ memit' = IF scaled.val # lastPos THEN scaled.val ELSE NoPos
                  /\ mpc' = "emit"
    /\ UNCHANGED <<devVars, linkUp, handleVars, lockVars, callerVars, stopped,
                   selfInterval, interval, maxInterval, monLastPos, noteVars>>
    /\ UNCHANGED stepVars
MonRead ==
    /\ mpc = "read"
    /\ lockOwner = "none"
    /\ drvOwner = "none"
    /\ \E packet \in PosPackets(devPos) :
         LET got == GetPos(packet)
             scaled == ScalePos(got.val)
         IN  IF ~linkUp \/ got.exc # "none" \/ scaled.exc # "none"
             THEN mpc' = "errsleep" /\ UNCHANGED <<lastPos, mpos, memit>>
             ELSE /\ lastPos' = scaled.val
                  /\ mpos' = scaled.val
                  /\ memit' = IF scaled.val # lastPos THEN scaled.val ELSE NoPos
                  /\ mpc' = "emit"
    /\ UNCHANGED <<devVars, linkUp, handleVars, lockVars, callerVars, stopped,
                   selfInterval, interval, maxInterval, monLastPos, noteVars>>
    /\ UNCHANGED stepVars

\* _getPosition after the lock is released: posChanged(pos) when emit; then
\* run() compares pos with its lastPos and chooses the interval to sleep
MonEmit ==
    /\ mpc = "emit"
    /\ IF memit # NoPos THEN Notify(memit) ELSE UNCHANGED noteVars
    /\ interval' = NextInterval(mpos # monLastPos, maxInterval, interval)
    /\ monLastPos' = mpos
    /\ mpos' = NoPos
    /\ memit' = NoPos
    /\ mpc' = "sleep"
    /\ UNCHANGED <<devVars, linkUp, lastPos, handleVars, lockVars, callerVars, stopped,
                   selfInterval, maxInterval>>
    /\ UNCHANGED stepVars

\* time.sleep(interval), or time.sleep(maxInterval) after an error, is over
MonWake ==
    /\ mpc \in {"sleep", "errsleep"}
    /\ mpc' = "top"
    /\ UNCHANGED <<devVars, linkUp, lastPos, handleVars, lockVars, callerVars, stopped,
                   selfInterval, interval, maxInterval, monLastPos, mpos, memit,
                   noteVars>>
    /\ UNCHANGED stepVars

\* the duration of the sleep the monitor is in (ms)
Sleeping == mpc \in {"sleep", "errsleep"}
SleepDuration == IF mpc = "sleep" THEN interval ELSE maxInterval

(***************************************************************************)
(* The locks and the link, one lock operation and one transfer at a time   *)
(*                                                                         *)
(* Above, a driver command (the write and the read of its reply) is one    *)
(* step.  Here every acquire, release, write and read is a step of its     *)
(* own, and an operation is the sequence of these steps its code runs      *)
(* through.  What an operation does with the values it reads is left out:  *)
(* where the code branches on a reply, every branch is a sequence the      *)
(* thread may run.                                                         *)
(***************************************************************************)
Threads == {"caller", "monitor"}

\* with <lock>: entry and exit
Acq(l) == [k |-> "acq", a |-> l, ex |-> 0]
Rel(l) == [k |-> "rel", a |-> l, ex |-> 0]
\* self.write(cmd) and self.readUntil('\r')
Wr(c) == [k |-> "write", a |-> c, ex |-> 0]
Rd(c) == [k |-> "read", a |-> c, ex |-> 0]

\* the steps of moveTo from the POS written to the acknowledgement of the ABS
InMoveTo(steps) == [i \in 1..Len(steps) |-> [steps[i] EXCEPT !.ex = 1]]

\* a driver method of one command: with self.lock: write, readUntil
DrvCmd(c) == <<Acq("driver"), Wr(c), Rd(c), Rel("driver")>>

\* the driver's moveTo: with self.lock: getPos, getSpeed or setSpeed, ABS
MoveToSteps ==
    {<<Acq("driver"), Acq("driver"), Wr("POS")>>
        \o InMoveTo(<<Rd("POS"), Rel("driver")>> \o DrvCmd(top)
                      \o <<Wr("ABS"), Rd("ABS")>>)
        \o <<Rel("driver")>> : top \in {"TOP", "TOP n"}}

\* _getPosition: with self.lock: self.dev.getPos()
GetPositionSteps == <<Acq("facade")>> \o DrvCmd("POS") \o <<Rel("facade")>>

\* _getStatus: the memoized status; isMoving() true; isMoving() false and
\* _getPosition()
GetStatusSteps == {<< >>, DrvCmd("S"), DrvCmd("S") \o GetPositionSteps}

\* stop(): with self.lock: self.dev.stop(), _stopped() on the current future
StopSteps ==
    {<<Acq("facade")>> \o DrvCmd("STOP") \o g \o <<Rel("facade")>> :
        g \in GetStatusSteps}

\* targetPosition(): with self.lock: isDone() on the current future
TargetPositionSteps ==
    {<<Acq("facade")>> \o g \o <<Rel("facade")>> : g \in GetStatusSteps}

\* _move: with self.lock: isDone(); when it is false, stop(); then the new
\* future calls moveTo -- or stop() raised and _move is left
MoveSteps ==
    {<<Acq("facade")>> \o g \o m \o <<Rel("facade")>> :
        g \in GetStatusSteps \ {DrvCmd("S")}, m \in MoveToSteps}
    \cup {<<Acq("facade")>> \o DrvCmd("S") \o st \o m \o <<Rel("facade")>> :
             st \in StopSteps, m \in MoveToSteps \cup {<< >>}}

\* MonitorThread.stop(), setInterval(i): with self.lock
MonitorCallSteps == <<Acq("monitor"), Rel("monitor")>>

\* one iteration of MonitorThread.run: with self.lock: the flag, the
\* ceiling; then self.dev._getPosition()
MonitorCycleSteps == <<Acq("monitor"), Rel("monitor")>> \o GetPositionSteps

\* what the caller thread can call: the facade, a future (isDone), the
\* monitor, the driver itself
CallerOperations ==
    {GetPositionSteps, MonitorCallSteps, DrvCmd("POS")}
        \cup GetStatusSteps \cup StopSteps \cup TargetPositionSteps \cup MoveSteps
        \cup MoveToSteps

\* the facade's lock is the lock of the Stage base class: reentrant
FacadeLockReentrant == TRUE

\* the driver's lock is RLock(), the monitor's Mutex(recursive=True)
Reentrant(l) == IF l = "facade" THEN FacadeLockReentrant ELSE TRUE

\* thread t can take lock l now
\* (mutants: no lock excludes anyone; no lock is reentrant)
MutCanAcquireAlways(l, t) == TRUE
MutCanAcquireNotReentrant(l, t) == held[l].owner = "none"
CanAcquire(l, t) ==
    \/ held[l].owner = "none"
    \/ held[l].owner = t /\ Reentrant(l)

Running(t) == prog[t] # << >>

NextStep(t) == Head(prog[t])

Advance(t) == prog' = [prog EXCEPT ![t] = Tail(@)]

Free == [owner |-> "none", depth |-> 0]

\* the caller thread calls an operation
CallOperation(steps) ==
    /\ ~Running("caller")
    /\ steps # << >>
    /\ prog' = [prog EXCEPT !["caller"] = steps]
    /\ UNCHANGED <<held, wire>>
    /\ UNCHANGED <<devVars, linkUp, lastPos, handleVars, lockVars, callerVars, monVars,
                   noteVars>>

\* run() begins its next iteration (the sleep is over)
MonitorCycle ==
    /\ ~Running("monitor")
    /\ prog' = [prog EXCEPT !["monitor"] = MonitorCycleSteps]
    /\ UNCHANGED <<held, wire>>
    /\ UNCHANGED <<devVars, linkUp, lastPos, handleVars, lockVars, callerVars, monVars,
                   noteVars>>

\* with <lock>: the thread enters when the lock lets it
Acquire(t) ==
    /\ Running(t)
    /\ NextStep(t).k = "acq"
    /\ CanAcquire(NextStep(t).a, t)
    /\ held' = [held EXCEPT ![NextStep(t).a] =
                    [owner |-> t, depth |-> @.depth + 1]]
    /\ Advance(t)
    /\ UNCHANGED wire
    /\ UNCHANGED <<devVars, linkUp, lastPos, handleVars, lockVars, callerVars, monVars,
                   noteVars>>

\* the end of a with block
Release(t) ==
    /\ Running(t)
    /\ NextStep(t).k = "rel"
    /\ held' = [held EXCEPT ![NextStep(t).a] =
                    IF @.depth = 1 THEN Free ELSE [@ EXCEPT !.depth = @ - 1]]
    /\ Advance(t)
    /\ UNCHANGED wire
    /\ UNCHANGED <<devVars, linkUp, lastPos, handleVars, lockVars, callerVars, monVars,
                   noteVars>>

\* self.write(cmd): the command is on the link
Write(t) ==
    /\ Running(t)
    /\ NextStep(t).k = "write"
    /\ wire' = Append(wire, [by |-> t, cmd |-> NextStep(t).a])
    /\ Advance(t)
    /\ UNCHANGED held
    /\ UNCHANGED <<devVars, linkUp, lastPos, handleVars, lockVars, callerVars, monVars,
                   noteVars>>

\* self.readUntil('\r'): the reply to the oldest command on the link is read;
\* or no reply comes and the read times out, the exception leaves every with
\* block of the thread and ends its operation (in run(), the iteration)
Read(t) ==
    /\ Running(t)
    /\ NextStep(t).k = "read"
    /\ IF linkUp /\ wire # << >>
       THEN /\ wire' = Tail(wire)
            /\ Advance(t)
            /\ UNCHANGED held
       ELSE /\ wire' = SelectSeq(wire, LAMBDA w : w.by # t)
            /\ prog' = [prog EXCEPT ![t] = << >>]
            /\ held' = [l \in DOMAIN held |->
                            IF held[l].owner = t THEN Free ELSE held[l]]
    /\ UNCHANGED <<devVars, linkUp, lastPos, handleVars, lockVars, callerVars, monVars,
                   noteVars>>

(***************************************************************************)
(* Specification                                                           *)
(***************************************************************************)
\* the caller thread's operations on the facade and on its futures, with
\* the manipulator carrying out the commanded moves
NextCaller ==
    \/ DeviceStep
    \/ DeviceHalt
    \/ LinkDrop
    \/ LinkRestore
    \/ \E t \in Targets, s \in BOOLEAN : CallMove(t, s)
    \/ CallStop
    \/ CallGetPosition
    \/ CallTargetPosition
    \/ \E slot \in {"last", "old"} : CallIsDone(slot)
    \/ \E slot \in {"last", "old"} : CallWasInterrupted(slot)
    \/ \E slot \in {"last", "old"} : CallErrorMessage(slot)
    \/ CallerS
    \/ CallerPOS
    \/ CallerFin
    \/ CallerSTOP
    \/ CallerMoveToPOS
    \/ CallerMoveToTOP
    \/ CallerMoveToABS

\* the monitor thread polling beside a caller that reads the position and
\* controls the monitor, with the manipulator moved by hand
NextMonitor ==
    \/ DeviceJog
    \/ LinkDrop
    \/ LinkRestore
    \/ CallGetPosition
    \/ \E i \in Intervals : CallSetInterval(i)
    \/ CallMonitorStop
    \/ CallMonitorStart
    \/ CallQuit
    \/ CallerPOS
    \/ CallerFin
    \/ MonTop
    \/ MonRead
    \/ MonEmit
    \/ MonWake

Next ==
    \/ DeviceStep
    \/ DeviceHalt
    \/ DeviceJog
    \/ LinkDrop
    \/ LinkRestore
    \/ \E t \in Targets, s \in BOOLEAN : CallMove(t, s)
    \/ \E a \in DriverTargets, s \in BOOLEAN : CallMoveTo(a, s)
    \/ CallGetPos
    \/ CallStop
    \/ CallGetPosition
    \/ CallTargetPosition
    \/ \E slot \in {"last", "old"} : CallIsDone(slot)
    \/ \E slot \in {"last", "old"} : CallWasInterrupted(slot)
    \/ \E slot \in {"last", "old"} : CallErrorMessage(slot)
    \/ \E i \in Intervals : CallSetInterval(i)
    \/ CallMonitorStop
    \/ CallMonitorStart
    \/ CallQuit
    \/ CallerGetPos
    \/ CallerGetPosReturn
    \/ CallerS
    \/ CallerPOS
    \/ CallerFin
    \/ CallerSTOP
    \/ CallerMoveToPOS
    \/ CallerMoveToTOP
    \/ CallerMoveToABS
    \/ MonTop
    \/ MonRead
    \/ MonEmit
    \/ MonWake
    \/ \E steps \in CallerOperations : CallOperation(steps)
    \/ MonitorCycle
    \/ \E t \in Threads : Acquire(t)
    \/ \E t \in Threads : Release(t)
    \/ \E t \in Threads : Write(t)
    \/ \E t \in Threads : Read(t)

Spec == Init /\ [][Next]_vars

SpecCaller == Init /\ [][NextCaller]_vars

\* the caller thread using the driver directly (getPos, moveTo) beside the
\* facade's move
NextDriver ==
    \/ DeviceStep
    \/ LinkDrop
    \/ LinkRestore
    \/ \E a \in DriverTargets, s \in BOOLEAN : CallMoveTo(a, s)
    \/ \E s \in BOOLEAN : CallMove(<<95, 95, 0>>, s)
    \/ CallGetPos
    \/ CallerGetPos
    \/ CallerGetPosReturn
    \/ CallerS
    \/ CallerPOS
    \/ CallerFin
    \/ CallerSTOP
    \/ CallerMoveToPOS
    \/ CallerMoveToTOP
    \/ CallerMoveToABS

SpecDriver == Init /\ [][NextDriver]_vars

SpecMonitor == Init /\ [][NextMonitor]_vars

\* both threads at the granularity of single lock operations and transfers
NextSteps ==
    \/ LinkDrop
    \/ LinkRestore
    \/ \E steps \in CallerOperations : CallOperation(steps)
    \/ MonitorCycle
    \/ \E t \in Threads : Acquire(t)
    \/ \E t \in Threads : Release(t)
    \/ \E t \in Threads : Write(t)
    \/ \E t \in Threads : Read(t)

SpecSteps == Init /\ [][NextSteps]_vars

\* the lifecycle of the monitor thread: the caller starts and stops it, sets
\* its ceiling and quits the facade, while the manipulator is moved by hand
NextLifecycle ==
    \/ DeviceJog
    \/ LinkDrop
    \/ LinkRestore
    \/ \E i \in Intervals : CallSetInterval(i)
    \/ CallMonitorStop
    \/ CallMonitorStart
    \/ CallQuit
    \/ MonTop
    \/ MonRead
    \/ MonEmit
    \/ MonWake

\* the monitor thread is scheduled: a step of run() that can be taken is
\* taken eventually (a sleep ends, a lock that is free is acquired)
SpecLifecycle ==
    /\ Init
    /\ [][NextLifecycle]_vars
    /\ WF_vars(MonTop)
    /\ WF_vars(MonRead)
    /\ WF_vars(MonEmit)
    /\ WF_vars(MonWake)

(***************************************************************************)
(* Properties                                                              *)
(***************************************************************************)
InLog(c) == \E i \in 1..Len(cmdLog) : cmdLog[i] = c

\* the caller's operation wrote ABS after asking the manipulator (S) about a
\* current future that was not finished when move was called
SecondMoveIssued ==
    /\ Len(cmdLog) > 0
    /\ cmdLog[Len(cmdLog)] = "ABS"
    /\ cmdLog[1] \in {"S=moving", "S=stopped"}

\* C1 as stated: whenever move is called while the current future is
\* unresolved, a STOP is on the link before the ABS of the second move.
C1_StopAlwaysPrecedesSecondMove == SecondMoveIssued => InLog("STOP")

\* C1 amended: when move is called while the current future is unresolved and
\* the manipulator reports moving, a STOP is on the link before the ABS of the
\* second move; when the manipulator reports that it has stopped, the query
\* resolves the future and the ABS follows with no STOP.
C1_StopPrecedesSecondMoveWhenMoving ==
    SecondMoveIssued =>
        /\ cmdLog[1] = "S=moving" => InLog("STOP")
        /\ cmdLog[1] = "S=stopped" =>
             /\ ~InLog("STOP")
             /\ IsDone(IF result = "returned" THEN oldMove ELSE lastMove)

C1_Witness ==
    /\ result = "returned"
    /\ cmdLog = <<"S=moving", "STOP", "S=stopped", "POS", "POS", "TOP n", "ABS">>

\* stop() (called directly or from move) has a future to notify
InStopped == cop \in {"stop", "move"} /\ cin = "stopped" /\ lastMove.live

\* C2: stop() on a pending future, the manipulator reports not moving after
\* the STOP and the position read is not within tolerance of the target: the
\* future resolves to failed, with wasInterrupted() true and errorMessage()
\* "Move was interrupted before completion."
C2_StopInterruptsPendingMove ==
    [][(/\ InStopped
        /\ cpc = "fin"
        /\ cpc' # "fin"
        /\ ~ReachedTarget(cpos, lastMove.targetPos))
       => /\ lastMove' = NoHandle
          /\ IsDone(oldMove')
          /\ WasInterrupted(oldMove')
          /\ ErrorMessage(oldMove') = MsgInterrupted]_vars

C2_Witness ==
    /\ result = "returned"
    /\ cmdLog = <<"STOP", "S=stopped", "POS">>
    /\ ~lastMove.live
    /\ ~ReachedTarget(lastPos, oldMove.targetPos)
    /\ WasInterrupted(oldMove)
    /\ ErrorMessage(oldMove) = MsgInterrupted

\* C3: stop() returns while the manipulator is at rest within tolerance of
\* the current future's target, whether the future was finished before or is
\* resolved by this call: the future is succeeded, not interrupted.
C3_StopAfterArrivalSucceeds ==
    [][(/\ InStopped
        /\ cop = "stop"
        /\ result' = "returned"
        /\ ~devMoving
        /\ ReachedTarget(ToPosition(devPos), lastMove.targetPos))
       => /\ IsDone(oldMove')
          /\ ~WasInterrupted(oldMove')
          /\ oldMove'.targetPos = lastMove.targetPos]_vars

C3_Witness ==
    /\ result = "returned"
    /\ cmdLog = <<"STOP", "S=stopped", "POS">>
    /\ ~lastMove.live
    /\ ~devMoving
    /\ ReachedTarget(ToPosition(devPos), oldMove.targetPos)
    /\ IsDone(oldMove)
    /\ ~WasInterrupted(oldMove)

\* C4: in stop(), when the manipulator still reports moving after the STOP,
\* the operation ends with RuntimeError and the future stays as it was:
\* current and unresolved.
C4_StillMovingAfterStopRaises ==
    [][(/\ InStopped
        /\ cpc = "S"
        /\ ~lastMove.finished
        /\ linkUp
        /\ devMoving
        /\ cmdLog' # cmdLog)
       => /\ result' = "RuntimeError"
          /\ cpc' = "idle"
          /\ lastMove' = lastMove
          /\ oldMove' = oldMove]_vars

C4_Witness ==
    /\ result = "RuntimeError"
    /\ cmdLog = <<"STOP", "S=moving">>
    /\ lastMove.live
    /\ ~lastMove.finished

\* C5: a move to the manipulator's current position: an isDone() that returns
\* while the manipulator reports not moving leaves the future succeeded.
C5_ZeroMoveSucceeds ==
    [][(/\ cop = "isDone"
        /\ ch = "last"
        /\ lastMove.zeroMove
        /\ result' = "returned"
        /\ ~devMoving)
       => /\ IsDone(lastMove')
          /\ ~WasInterrupted(lastMove')]_vars

C5_Witness ==
    /\ result = "returned"
    /\ cmdLog = <<"S=stopped", "POS">>
    /\ lastMove.zeroMove
    /\ IsDone(lastMove)
    /\ ~WasInterrupted(lastMove)
    /\ lastMove.targetPos = ToPosition(devPos)

\* the outcome of a future
Outcome(h) == <<h.finished, h.interrupted, h.errorMsg>>

\* this step takes the current future off the facade: stop() clears it, or a
\* new (unfinished) future replaces a finished one
Retires ==
    /\ lastMove.live
    /\ \/ ~lastMove'.live
       \/ lastMove.finished /\ ~lastMove'.finished

\* C6 as stated: once a future is resolved, no later call changes its outcome
\* or its reason.
C6_ResolvedOutcomeNeverChanges ==
    [][/\ (lastMove.finished /\ ~Retires) => Outcome(lastMove') = Outcome(lastMove)
       /\ (lastMove.finished /\ Retires) => Outcome(oldMove') = Outcome(lastMove)
       /\ (oldMove.finished /\ ~Retires) => Outcome(oldMove') = Outcome(oldMove)]_vars

\* C7 as stated: errorMessage() never fails, and it returns a reason only for
\* a future that resolved to failed.
C7_ErrorMessageOnlyWhenFailed ==
    /\ result # AttributeError
    /\ \A h \in {lastMove, oldMove} :
         (h.live /\ ~WasInterrupted(h)) => ErrorMessage(h) = "None"

\* C8 as stated: observers never receive two consecutive notifications with
\* the same position, and a read that equals the cache produces none.
C8_NoRepeatedNotification ==
    [][/\ notifyCount' # notifyCount => notified' # notified
       /\ (mpc = "read" /\ mpc' = "emit" /\ ToPosition(devPos) = lastPos)
            => memit' = NoPos
       /\ (cpc = "POS" /\ cpc' = "fin" /\ ToPosition(devPos) = lastPos)
            => cemit' = NoPos]_vars

\* C9 as stated: whatever the ceiling, the monitor never sleeps longer than
\* the ceiling it read at the top of the cycle.
C9_SleepNeverExceedsCeiling == Sleeping => SleepDuration <= maxInterval

\* C9 amended: the monitor never sleeps longer than the ceiling it read at
\* the top of the cycle, unless it sleeps exactly the floor (100 ms): a cycle
\* that detects a change sleeps the floor even under a lower ceiling.
C9_SleepWithinCeilingOrFloor ==
    Sleeping => (SleepDuration <= maxInterval \/ SleepDuration = minInterval)

C9_Witness ==
    /\ mpc = "sleep"
    /\ maxInterval # DefaultInterval
    /\ maxInterval = selfInterval
    /\ interval = maxInterval

\* C10: a cycle whose read differs from the previous read sleeps the floor; a
\* cycle whose read is unchanged sleeps twice the previous interval, clamped
\* to the ceiling, and so stays at the ceiling once there.
C10_IntervalResetsAndDoubles ==
    [][(mpc = "emit" /\ mpc' # "emit")
       => /\ mpc' = "sleep"
          /\ IF mpos # monLastPos
             THEN SleepDuration' = minInterval
             ELSE /\ 2 * interval <= maxInterval => SleepDuration' = 2 * interval
                  /\ 2 * interval > maxInterval => SleepDuration' = maxInterval
                  /\ (interval = maxInterval /\ interval > 0)
                       => SleepDuration' = maxInterval]_vars

C10_Witness ==
    /\ mpc = "sleep"
    /\ maxInterval = DefaultInterval
    /\ interval = DefaultInterval
    /\ monLastPos = ToPosition(devPos)
    /\ monLastPos # ToPosition(InitRaw)

\* C11: run() tests the stop flag and reads the ceiling at the top of every
\* iteration: with the flag set it exits without another read, so the only
\* read after stop() is one that had passed the test already; otherwise the
\* iteration uses the ceiling setInterval stored last; and while the flag
\* stays set the loop does exit.
C11_FlagAndCeilingSeenAtTop ==
    /\ [][/\ (mpc = "top" /\ mpc' # "top" /\ stopped) => mpc' = "exit"
          /\ (mpc = "top" /\ mpc' # "top" /\ ~stopped)
               => (mpc' = "read" /\ maxInterval' = selfInterval)
          /\ (mpc # "read" /\ mpc' = "read") => (mpc = "top" /\ ~stopped)]_vars
    /\ (stopped ~> (mpc = "exit" \/ ~stopped))

C11_Witness ==
    /\ stopped
    /\ mpc = "exit"
    /\ maxInterval = selfInterval
    /\ maxInterval # DefaultInterval
    /\ monLastPos # ToPosition(InitRaw)

\* C12 as stated: quit() returns and leaves the stop flag of the monitor set.
C12_QuitSetsStopFlag ==
    [][(cpc = "idle" /\ result' \in {NoMonitorAttribute, "quit returned"})
       => (result' = "quit returned" /\ stopped')]_vars

\* C13: a read that fails in a cycle of run() (the read times out, the reply
\* does not parse) does not end the loop: the monitor sleeps the ceiling it
\* read in that cycle and goes back to the top; run() ends only at the top,
\* with the stop flag set.
C13_ReadErrorKeepsLooping ==
    [][/\ (mpc = "read" /\ mpc' # "read") => mpc' \in {"emit", "errsleep"}
       /\ (mpc = "read" /\ mpc' # "read" /\ ~linkUp) => mpc' = "errsleep"
       /\ (mpc # "errsleep" /\ mpc' = "errsleep")
            => /\ mpc = "read"
               /\ maxInterval' = maxInterval
               /\ SleepDuration' = maxInterval
       /\ (mpc = "errsleep" /\ mpc' # "errsleep") => mpc' = "top"
       /\ (mpc # "exit" /\ mpc' = "exit") => (mpc = "top" /\ stopped)]_vars

C13_Witness ==
    /\ mpc = "errsleep"
    /\ linkUp
    /\ ~stopped
    /\ maxInterval = selfInterval
    /\ interval # maxInterval
    /\ monLastPos # NoPos

Last(log) == log[Len(log)]

\* C14 as stated: whenever getPos returns a position to its caller, the reply
\* to POS had exactly three integer fields and the position has three
\* entries.
C14_GetPosRejectsMalformedReply ==
    cpc = "gRet" => (Last(cmdLog) = "POS" /\ Len(craw) = 3)

\* C15: moveTo writes POS, then TOP <speed> when a speed is given and the TOP
\* query otherwise, then ABS; the ABS carries three integers, the axes given
\* as None taken from the reply to the POS of the same call and the others
\* from the argument; moveTo returns on the acknowledgement of the ABS, while
\* the manipulator is on its way.
C15_MoveToSendsPosTopAbs ==
    [][/\ (cpc = "mtPOS" /\ cpc' = "mtTOP")
            => /\ cmdLog' = Append(cmdLog, Last(cmdLog'))
               /\ Last(cmdLog') \in {"POS", "POS=short", "POS=long"}
               /\ \A i \in 1..Len(craw') : i <= 3 => craw'[i] = devPos[i]
       /\ (cpc = "mtTOP" /\ cpc' = "mtABS")
            => /\ cmdLog' = Append(cmdLog, IF cspeed THEN "TOP n" ELSE "TOP")
               /\ craw' = craw
       /\ (cpc # "mtTOP" /\ cpc' = "mtTOP") => cpc = "mtPOS"
       /\ (cpc # "mtABS" /\ cpc' = "mtABS") => cpc = "mtTOP"
       /\ (cpc = "mtABS" /\ cpc' # "mtABS")
            => /\ cmdLog' = Append(cmdLog, "ABS")
               /\ cpc' = "idle"
       /\ (InLog("ABS")' /\ ~InLog("ABS")) => cpc = "mtABS"
       /\ (cpc = "mtABS" /\ result' = "returned")
            => /\ Len(devTarget') = 3
               /\ \A i \in 1..3 :
                    devTarget'[i] = IF i \in cnone THEN craw[i] ELSE MoveToArgs[i]
               /\ devMoving']_vars

C15_Witness ==
    /\ result = "returned"
    /\ cmdLog = <<"POS", "TOP n", "ABS">>
    /\ devMoving
    /\ devTarget = <<20, 20, 0>>
    /\ devPos # devTarget

\* C16 as stated: the thread that delivers a notification does not hold the
\* facade's lock at that moment.
C16_NoNotificationUnderLock ==
    [][/\ (cpc = "fin" /\ cpc' # "fin" /\ notifyCount' # notifyCount)
            => lockOwner # "caller"
       /\ (mpc = "emit" /\ mpc' # "emit" /\ notifyCount' # notifyCount)
            => lockOwner # "monitor"]_vars

\* C18: every future that is no longer the facade's current one (replaced by
\* a later move, cleared by stop()) is resolved; an unresolved future is the
\* current one, so at most one future is unresolved.
C18_OnlyCurrentHandlePending ==
    /\ oldMove.live => IsDone(oldMove)
    /\ \A h \in {lastMove, oldMove} : (h.live /\ ~IsDone(h)) => h = lastMove

C18_Witness ==
    /\ cpc = "idle"
    /\ result = "returned"
    /\ InLog("STOP")
    /\ Last(cmdLog) = "ABS"
    /\ oldMove.live
    /\ IsDone(oldMove)
    /\ WasInterrupted(oldMove)
    /\ lastMove.live
    /\ ~IsDone(lastMove)

\* neither thread is inside a position read (between the command and the
\* delivery of its notification)
Quiescent == cpc = "idle" /\ mpc \in {"top", "sleep", "errsleep", "exit"}

\* C20 as stated: once both threads are quiescent, the last notification
\* delivered carries the cached position.
C20_LastNotificationIsCache == Quiescent => notified = lastPos

\* thread u is between the POS it wrote in moveTo and the acknowledgement of
\* its ABS
InExchange(u) == Running(u) /\ NextStep(u).ex = 1

\* thread t writes a command in this step
Writes(t) == Running(t) /\ NextStep(t).k = "write" /\ prog'[t] = Tail(prog[t])

\* thread t reads a reply in this step
Reads(t) ==
    /\ Running(t)
    /\ NextStep(t).k = "read"
    /\ prog'[t] = Tail(prog[t])
    /\ wire' # wire

\* C17: at most one command is on the link without its reply read; a thread
\* reads the reply to the command it wrote itself; and while a thread is
\* between the POS and the ABS acknowledgement of a moveTo, no other thread
\* writes a command.
C17_OneCommandOutstanding ==
    [][/\ Len(wire') <= 1
       /\ \A t \in Threads :
            /\ Writes(t) => (wire = << >> /\ \A u \in Threads \ {t} : ~InExchange(u))
            /\ Reads(t) => (Head(wire).by = t /\ Head(wire).cmd = NextStep(t).a)]_vars

C17_Witness ==
    /\ InExchange("caller")
    /\ wire = <<[by |-> "caller", cmd |-> "TOP n"]>>
    /\ held["facade"].owner = "monitor"
    /\ Running("monitor")
    /\ NextStep("monitor") = Acq("driver")

\* thread t waits for a lock
Blocked(t) ==
    /\ Running(t)
    /\ NextStep(t).k = "acq"
    /\ ~CanAcquire(NextStep(t).a, t)

\* C19: a thread that waits for a lock waits for the other thread, never for
\* itself (a nested acquisition succeeds), and the thread it waits for is
\* not waiting: there is no cycle of waiting threads.
C19_NoDeadlock ==
    \A t \in Threads :
        Blocked(t) =>
            /\ held[NextStep(t).a].owner \in Threads \ {t}
            /\ ~Blocked(held[NextStep(t).a].owner)
            /\ Running(held[NextStep(t).a].owner)

C19_Witness ==
    /\ held["facade"] = [owner |-> "caller", depth |-> 3]
    /\ held["driver"] = [owner |-> "caller", depth |-> 1]
    /\ Blocked("monitor")
    /\ NextStep("monitor") = Acq("facade")

====
